---------------------------- MODULE Spec2Model ----------------------------
(***************************************************************************)
(* Model of PDFAssembler (src/pdf_assembler.py): label scan, file-name     *)
(* parsing, size assignment with positional fallback, per-size assembly    *)
(* and the combined document.                                               *)
(*                                                                         *)
(* Strings are sequences of one-character strings, so that split, isdigit, *)
(* int, str, replace, strip, the regular expressions and the substring     *)
(* test of create_combined_pdf are computed and not assumed.  The module   *)
(* is written in ASCII; the Cyrillic literals of the source are written    *)
(* with Latin stand-ins of the same length:                                *)
(*   "Razmer:"   for the label marker of find_size_in_text (line 35),      *)
(*   "razm"      for the stem of the file-name pattern (line 99),          *)
(*   "Sborka_"   for the output prefix (lines 259 and 274),                *)
(*   "_vse_razmery.pdf" for the combined suffix (line 274).                *)
(***************************************************************************)
EXTENDS Integers, Sequences, FiniteSets, TLC

VARIABLES
    input_dir,        \* the *.pdf files below input_dir, a set of file records
    create_combined,  \* the argument of process
    pc,               \* position in the operation being run
    label_file,       \* process: the file chosen as the label, as a set of 0 or 1
    kiz_files,        \* process: the other files
    scan,             \* find_label_pages: size_pages, current_size, first_page
    fed,              \* the marker every scanned label page was rendered from
    kiz_infos,        \* process: one record per code document, in sorted order
    item_no,          \* process: the item the assembly loop is at (from 1)
    log_messages,     \* self.log_messages, as records
    disk,             \* the output directory: path -> page sequence
    created_files,    \* process: created_files
    result            \* what the operation returned (None before it returns)

vars == <<input_dir, create_combined, pc, label_file, kiz_files, scan, fed,
          kiz_infos, item_no, log_messages, disk, created_files, result>>

\* Python's None, where the other values are integers (sizes, page indices).
None == 0 - 1

\* self.size_order, the canonical catalog.
size_order == <<42, 44, 46, 48, 50, 52, 54, 56>>

\* The members of a sequence.
Range(s) == {s[i] : i \in DOMAIN s}

(***************************************************************************)
(* Strings                                                                 *)
(***************************************************************************)

\* The characters of the model in code-point order (ASCII).
Chars == <<" ", ".", "/", "0", "1", "2", "3", "4", "5", "6", "7", "8", "9",
           ":", "A", "C", "E", "I", "L", "M", "N", "O", "R", "S", "T", "X",
           "Z", "_", "a", "b", "c", "d", "e", "f", "g", "h", "i", "j", "k",
           "l", "m", "o", "p", "r", "s", "t", "u", "v", "x", "y", "z">>

Ord(c) == CHOOSE i \in DOMAIN Chars : Chars[i] = c

Digits == {"0", "1", "2", "3", "4", "5", "6", "7", "8", "9"}

DigitVal(c) == Ord(c) - Ord("0")

\* str.isdigit(): non-empty and all digits.
IsDigitStr(s) == Len(s) > 0 /\ \A i \in DOMAIN s : s[i] \in Digits

\* int(s) of a digit string.
RECURSIVE ToInt(_)
ToInt(s) ==
    IF s = <<>> THEN 0
    ELSE 10 * ToInt(SubSeq(s, 1, Len(s) - 1)) + DigitVal(s[Len(s)])

\* str(n) of a natural number.
RECURSIVE ToStr(_)
ToStr(n) ==
    IF n < 10 THEN <<Chars[Ord("0") + n]>>
    ELSE ToStr(n \div 10) \o <<Chars[Ord("0") + (n % 10)]>>

\* Lower case of one character (re.IGNORECASE compares case-folded).
Lower(c) ==
    CASE c = "A" -> "a" [] c = "C" -> "c" [] c = "E" -> "e" [] c = "I" -> "i"
      [] c = "L" -> "l" [] c = "M" -> "m" [] c = "O" -> "o" [] c = "R" -> "r"
      [] c = "S" -> "s" [] c = "T" -> "t" [] c = "X" -> "x" [] c = "Z" -> "z"
      [] OTHER -> c

\* Python's string order: lexicographic by code point.
RECURSIVE StrLess(_, _)
StrLess(a, b) ==
    IF b = <<>> THEN FALSE
    ELSE IF a = <<>> THEN TRUE
    ELSE IF a[1] # b[1] THEN Ord(a[1]) < Ord(b[1])
    ELSE StrLess(Tail(a), Tail(b))

\* needle in hay.
Contains(hay, needle) ==
    \E i \in 1..(Len(hay) - Len(needle) + 1) :
        SubSeq(hay, i, i + Len(needle) - 1) = needle

StartsWith(s, p) == Len(s) >= Len(p) /\ SubSeq(s, 1, Len(p)) = p

\* str.split(): the maximal runs of non-blank characters.
RECURSIVE SplitFrom(_, _, _)
SplitFrom(s, i, cur) ==
    IF i > Len(s) THEN (IF cur = <<>> THEN <<>> ELSE <<cur>>)
    ELSE IF s[i] = " "
         THEN (IF cur = <<>> THEN <<>> ELSE <<cur>>) \o SplitFrom(s, i + 1, <<>>)
         ELSE SplitFrom(s, i + 1, Append(cur, s[i]))

Split(s) == SplitFrom(s, 1, <<>>)

\* " ".join(parts).
RECURSIVE Join(_)
Join(parts) ==
    IF parts = <<>> THEN <<>>
    ELSE IF Len(parts) = 1 THEN parts[1]
    ELSE parts[1] \o <<" ">> \o Join(Tail(parts))

\* s.replace(" ", "").
RemoveSpaces(s) == SelectSeq(s, LAMBDA c : c # " ")

\* s.strip().
RECURSIVE Strip(_)
Strip(s) ==
    IF s = <<>> THEN s
    ELSE IF s[1] = " " THEN Strip(Tail(s))
    ELSE IF s[Len(s)] = " " THEN Strip(SubSeq(s, 1, Len(s) - 1))
    ELSE s

\* parts[a:b] of Python, for 0 <= a: the elements at 0-based a .. b-1.
Slice(parts, a, b) == SubSeq(parts, a + 1, IF b < Len(parts) THEN b ELSE Len(parts))

\* The number of blanks of s from position i on (the \s* of the patterns).
RECURSIVE Blanks(_, _)
Blanks(s, i) == IF i <= Len(s) /\ s[i] = " " THEN 1 + Blanks(s, i + 1) ELSE 0

\* The number of digits of s from position i on (the \d+ of line 35).
RECURSIVE DigitRun(_, _)
DigitRun(s, i) == IF i <= Len(s) /\ s[i] \in Digits THEN 1 + DigitRun(s, i + 1) ELSE 0

(***************************************************************************)
(* Files and pages                                                         *)
(***************************************************************************)

\* A file of the input directory: its path below input_dir (a sequence of
\* components), its byte size, whether PdfReader opens it, the text of each
\* of its pages, and whether the output assembled from it can be written
\* (open(output_path, 'wb') of line 150).
File(path, st_size, ok, texts, wr) ==
    [path |-> path, st_size |-> st_size, ok |-> ok, texts |-> texts, wr |-> wr]

\* f.name
FileName(f) == f.path[Len(f.path)]

\* Page idx (0-based) of the file at path.
Page(path, idx) == [file |-> path, idx |-> idx]

\* reader.pages of an opened file.
PagesOf(f) == [i \in 1..Len(f.texts) |-> Page(f.path, i - 1)]

\* Path order: component-wise, each component in string order.
RECURSIVE PathLess(_, _)
PathLess(p, q) ==
    IF q = <<>> THEN FALSE
    ELSE IF p = <<>> THEN TRUE
    ELSE IF p[1] # q[1] THEN StrLess(p[1], q[1])
    ELSE PathLess(Tail(p), Tail(q))

\* sorted(files): the files in ascending path order.
RECURSIVE SortedFiles(_)
SortedFiles(S) ==
    IF S = {} THEN <<>>
    ELSE LET m == CHOOSE f \in S : \A g \in S \ {f} : PathLess(f.path, g.path)
         IN  <<m>> \o SortedFiles(S \ {m})

\* The empty dict.
EmptyMap == [k \in {} |-> None]

\* d[k] = v
Put(d, k, v) == [x \in DOMAIN d \cup {k} |-> IF x = k THEN v ELSE d[x]]

\* One entry of self.log_messages (the timestamp is left out).
LogEntry(level, tag, arg) == [level |-> level, tag |-> tag, arg |-> arg]

(***************************************************************************)
(* find_size_in_text and find_label_pages                                  *)
(***************************************************************************)

Marker == <<"R", "a", "z", "m", "e", "r", ":">>

\* re.search(r'Razmer:\s*(\d+)', text): the leftmost place where the marker,
\* any blanks and at least one digit follow each other; the digits' value.
RECURSIVE FindSizeFrom(_, _)
FindSizeFrom(text, i) ==
    IF i + Len(Marker) - 1 > Len(text) THEN None
    ELSE LET d == i + Len(Marker) + Blanks(text, i + Len(Marker))
             n == DigitRun(text, d)
         IN  IF SubSeq(text, i, i + Len(Marker) - 1) = Marker /\ n > 0
             THEN ToInt(SubSeq(text, d, d + n - 1))
             ELSE FindSizeFrom(text, i + 1)

FindSizeInText(text) == FindSizeFrom(text, 1)

\* The locals of find_label_pages before the first page.
ScanInit == [size_pages |-> EmptyMap, current_size |-> None, first_page |-> None]

\* ScanStep without the guard "if size:" of line 56.
ScanStepUnguarded(st, page_num, text) ==
    LET size == FindSizeInText(text)
    IN  IF st.current_size = size /\ st.first_page # None
        THEN [size_pages |-> Put(st.size_pages, size, <<st.first_page, page_num>>),
              current_size |-> None,
              first_page |-> None]
        ELSE [st EXCEPT !.current_size = size, !.first_page = page_num]

\* One iteration of the page loop (lines 52-64).  "if size:" is false for
\* no match and for a matched 0.
ScanStep(st, page_num, text) ==
    LET size == FindSizeInText(text)
    IN  IF size # None /\ size # 0
        THEN IF st.current_size = size /\ st.first_page # None
             THEN [size_pages |-> Put(st.size_pages, size, <<st.first_page, page_num>>),
                   current_size |-> None,
                   first_page |-> None]
             ELSE [st EXCEPT !.current_size = size, !.first_page = page_num]
        ELSE st

RECURSIVE ScanFrom(_, _, _)
ScanFrom(st, texts, page_num) ==
    IF page_num >= Len(texts) THEN st
    ELSE ScanFrom(ScanStep(st, page_num, texts[page_num + 1]), texts, page_num + 1)

\* find_label_pages: the size -> (first, second) dict; {} when the file
\* cannot be opened (lines 71-73).
FindLabelPages(f) ==
    IF f.ok THEN ScanFrom(ScanInit, f.texts, 0).size_pages ELSE EmptyMap

(***************************************************************************)
(* extract_kiz_info                                                        *)
(***************************************************************************)

\* Path(filename).stem: the name without its last suffix.
Stem(name) ==
    LET dots == {i \in 2..(Len(name) - 1) : name[i] = "."}
    IN  IF dots = {} THEN name
        ELSE SubSeq(name, 1, (CHOOSE i \in dots : \A j \in dots : j <= i) - 1)

InSizeOrder(n) == n \in Range(size_order)

\* Lines 90-95: the last part that is all digits and whose value is in
\* size_order, as str(num); "" when there is none.
SizeFromParts(parts) ==
    LET hits == {i \in DOMAIN parts :
                    IsDigitStr(parts[i]) /\ InSizeOrder(ToInt(parts[i]))}
    IN  IF hits = {} THEN <<>>
        ELSE ToStr(ToInt(parts[CHOOSE i \in hits : \A j \in hits : j <= i]))

Razm == <<"r", "a", "z", "m">>

\* re.search(r'(\d{2})\s*razm', name, re.IGNORECASE): the two digits of the
\* leftmost match, None when there is no match.
RECURSIVE SearchRazm(_, _)
SearchRazm(name, i) ==
    IF i + 1 > Len(name) THEN None
    ELSE LET r == i + 2 + Blanks(name, i + 2)
         IN  IF /\ name[i] \in Digits
                /\ name[i + 1] \in Digits
                /\ r + Len(Razm) - 1 <= Len(name)
                /\ [k \in 1..Len(Razm) |-> Lower(name[r + k - 1])] = Razm
             THEN ToInt(SubSeq(name, i, i + 1))
             ELSE SearchRazm(name, i + 1)

\* Lines 98-103.
SizeFromPattern(name) ==
    LET num == SearchRazm(name, 1)
    IN  IF num # None /\ InSizeOrder(num) THEN ToStr(num) ELSE <<>>

\* parts.index(size): the 0-based index of the first part equal to size.
IndexOf(parts, size) ==
    (CHOOSE i \in DOMAIN parts :
        parts[i] = size /\ \A j \in DOMAIN parts : parts[j] = size => i <= j) - 1

\* Lines 112-122.
ColorOf(parts, size) ==
    IF size # <<>> /\ size \in Range(parts)
    THEN LET idx == IndexOf(parts, size)
         IN  IF idx > 2 THEN Join(Slice(parts, 2, idx))
             ELSE Join(Slice(parts, 2, Len(parts)))
    ELSE Join(Slice(parts, 2, Len(parts)))

extract_kiz_info(filename) ==
    LET name  == Stem(filename)
        parts == Split(name)
        size1 == SizeFromParts(parts)
        size  == IF size1 # <<>> THEN size1 ELSE SizeFromPattern(name)
    IN  [article |-> IF Len(parts) >= 2 THEN Join(Slice(parts, 0, 2)) ELSE <<>>,
         color   |-> ColorOf(parts, size),
         size    |-> size]

(***************************************************************************)
(* assemble_pdf_for_size and create_combined_pdf                           *)
(***************************************************************************)

\* The output directory, as it appears in str(output_path).
OutputDir == <<"o", "u", "t">>

OutputPath(filename) == OutputDir \o <<"/">> \o filename

\* The loop of lines 144-148 with the code page added once.
RECURSIVE InterleaveOnce(_, _, _)
InterleaveOnce(tovar_page_obj, qadoq_page_obj, kiz_pages) ==
    IF kiz_pages = <<>> THEN <<>>
    ELSE <<tovar_page_obj, qadoq_page_obj, kiz_pages[1]>>
         \o InterleaveOnce(tovar_page_obj, qadoq_page_obj, Tail(kiz_pages))

\* The page sequence the writer holds after the loop of lines 144-148.
RECURSIVE Interleave(_, _, _)
Interleave(tovar_page_obj, qadoq_page_obj, kiz_pages) ==
    IF kiz_pages = <<>> THEN <<>>
    ELSE <<tovar_page_obj, qadoq_page_obj, kiz_pages[1], kiz_pages[1]>>
         \o Interleave(tovar_page_obj, qadoq_page_obj, Tail(kiz_pages))

\* assemble_pdf_for_size on the output directory d: the directory after the
\* call, the value returned and the log entries.  PdfReader(kiz_file_path)
\* raises for a file that cannot be opened, label_reader.pages[...] for an
\* index past the label's pages, open(output_path, 'wb') for an output that
\* cannot be written; all are caught and 0 is returned.
AssemblePdfForSize(d, label, tovar_page, qadoq_page, kiz_file, output_path) ==
    IF ~kiz_file.ok
    THEN [disk |-> d, pages |-> 0,
          log |-> <<LogEntry("ERROR", "assemble_failed", kiz_file.path)>>]
    ELSE LET kiz_page_count == Len(kiz_file.texts)
             written == Interleave(Page(label.path, tovar_page),
                                   Page(label.path, qadoq_page),
                                   PagesOf(kiz_file))
             opened == LogEntry("INFO", "kiz", <<kiz_file.path, kiz_page_count>>)
         IN  IF \/ tovar_page >= Len(label.texts)
                \/ qadoq_page >= Len(label.texts)
                \/ ~kiz_file.wr
             THEN [disk |-> d, pages |-> 0,
                   log |-> <<opened,
                             LogEntry("ERROR", "assemble_failed", kiz_file.path)>>]
             ELSE [disk |-> Put(d, output_path, written),
                   pages |-> kiz_page_count * 4,
                   log |-> <<opened,
                             LogEntry("INFO", "ready",
                                      <<output_path, kiz_page_count * 4>>)>>]

\* The inner loop of create_combined_pdf for one size (lines 170-176): the
\* pages of every listed file whose path contains "_<size>.pdf".
RECURSIVE PagesForSize(_, _, _)
PagesForSize(d, individual_files, size) ==
    IF individual_files = <<>> THEN <<>>
    ELSE (IF Contains(individual_files[1],
                      <<"_">> \o ToStr(size) \o <<".", "p", "d", "f">>)
          THEN d[individual_files[1]]
          ELSE <<>>)
         \o PagesForSize(d, Tail(individual_files), size)

\* The outer loop (line 169), from the k-th size of size_order on.
RECURSIVE CombinedPages(_, _, _)
CombinedPages(d, individual_files, k) ==
    IF k > Len(size_order) THEN <<>>
    ELSE PagesForSize(d, individual_files, size_order[k])
         \o CombinedPages(d, individual_files, k + 1)

\* create_combined_pdf on the output directory d; writable says whether
\* open(output_path, 'wb') succeeds.  A failure is logged and swallowed.
CreateCombinedPdf(d, individual_files, output_path, writable) ==
    IF writable
    THEN [disk |-> Put(d, output_path, CombinedPages(d, individual_files, 1)),
          log |-> <<LogEntry("INFO", "combined", output_path)>>]
    ELSE [disk |-> d,
          log |-> <<LogEntry("ERROR", "combined_failed", output_path)>>]

(***************************************************************************)
(* process                                                                 *)
(***************************************************************************)

MACOSX == <<"_", "_", "M", "A", "C", "O", "S", "X">>

\* Lines 189-195.
AllPdfs ==
    {f \in input_dir :
        MACOSX \notin Range(f.path) /\ ~StartsWith(FileName(f), <<".", "_">>)}

Returned(success, files) == [status |-> "returned", success |-> success, files |-> files]

Raised == [status |-> "raised", success |-> FALSE, files |-> <<>>]

NotReturned == [status |-> "running", success |-> FALSE, files |-> <<>>]

\* Lines 189-206: discovery and the choice of the label, the largest file.
Discover ==
    /\ pc = "discover"
    /\ IF AllPdfs = {}
       THEN /\ log_messages' = Append(log_messages, LogEntry("ERROR", "no_pdfs", <<>>))
            /\ result' = Returned(FALSE, <<>>)
            /\ pc' = "done"
            /\ UNCHANGED <<label_file, kiz_files>>
       ELSE \E f \in AllPdfs :
            /\ \A g \in AllPdfs : g.st_size <= f.st_size
            /\ label_file' = {f}
            /\ kiz_files' = AllPdfs \ {f}
            /\ log_messages' = Append(log_messages,
                                      LogEntry("INFO", "label_selected", f.path))
            /\ pc' = "scan"
            /\ UNCHANGED result
    /\ UNCHANGED <<input_dir, create_combined, scan, fed, kiz_infos, disk, created_files,
                   item_no>>

TheLabel == CHOOSE f \in label_file : TRUE

\* Lines 209-214: PdfReader(label_file) outside any try, then the scan.
ScanLabel ==
    /\ pc = "scan"
    /\ IF ~TheLabel.ok
       THEN /\ result' = Raised
            /\ pc' = "done"
            /\ UNCHANGED <<scan, log_messages>>
       ELSE /\ scan' = ScanFrom(ScanInit, TheLabel.texts, 0)
            /\ IF FindLabelPages(TheLabel) = EmptyMap
               THEN /\ log_messages' = log_messages \o
                           <<LogEntry("WARNING", "no_size_found", <<>>),
                             LogEntry("ERROR", "no_label_pages", <<>>)>>
                    /\ result' = Returned(FALSE, <<>>)
                    /\ pc' = "done"
               ELSE /\ pc' = "resolve"
                    /\ UNCHANGED <<result, log_messages>>
    /\ UNCHANGED <<input_dir, create_combined, label_file, kiz_files, fed, kiz_infos,
                   disk, created_files, item_no>>

\* Lines 223-228: kiz_infos before the fallback.
RECURSIVE ParsedInfos(_)
ParsedInfos(files) ==
    IF files = <<>> THEN <<>>
    ELSE LET info == extract_kiz_info(FileName(files[1]))
         IN  <<[file |-> files[1],
                info |-> info,
                size |-> IF IsDigitStr(info.size) THEN ToInt(info.size) ELSE None]>>
             \o ParsedInfos(Tail(files))

\* known_sizes (lines 221-228).
KnownSizes(infos) == {infos[i].size : i \in DOMAIN infos} \ {None}

\* missing_sizes measured against the label's map instead.
MissingFromLabel(infos) ==
    SelectSeq(size_order, LAMBDA s : s \notin DOMAIN scan.size_pages)

\* missing_sizes (line 230).
MissingSizes(infos) == SelectSeq(size_order, LAMBDA s : s \notin KnownSizes(infos))

\* unknown_items (line 231), as indices into kiz_infos.
RECURSIVE UnknownFrom(_, _)
UnknownFrom(infos, i) ==
    IF i > Len(infos) THEN <<>>
    ELSE (IF infos[i].size = None THEN <<i>> ELSE <<>>) \o UnknownFrom(infos, i + 1)

UnknownItems(infos) == UnknownFrom(infos, 1)

\* The condition of line 235 without the count of the code documents.
FallbackAnyCount(infos) == Len(UnknownItems(infos)) = Len(MissingSizes(infos))

\* The condition of line 235.
FallbackEligible(infos) ==
    /\ Len(infos) = Len(size_order)
    /\ Len(UnknownItems(infos)) = Len(MissingSizes(infos))

\* Line 236 left out: the items stay in the order of kiz_infos.
KeepOrder(infos, items) == items

\* unknown_items.sort(key=file.name) (line 236): stable, by file name.
RECURSIVE SortByName(_, _)
SortByName(infos, items) ==
    IF items = <<>> THEN <<>>
    ELSE LET k == CHOOSE k \in DOMAIN items :
                    /\ \A j \in DOMAIN items :
                          ~StrLess(FileName(infos[items[j]].file),
                                   FileName(infos[items[k]].file))
                    /\ \A j \in 1..(k - 1) :
                          StrLess(FileName(infos[items[k]].file),
                                  FileName(infos[items[j]].file))
         IN  <<items[k]>>
             \o SortByName(infos, SubSeq(items, 1, k - 1)
                                  \o SubSeq(items, k + 1, Len(items)))

\* zip(unknown_items, missing_sizes) and lines 238-239.
AssignSizes(infos, items, sizes) ==
    [i \in DOMAIN infos |->
        IF \E k \in DOMAIN items : items[k] = i /\ k <= Len(sizes)
        THEN LET k == CHOOSE k \in DOMAIN items : items[k] = i
             IN  [infos[i] EXCEPT !.size = sizes[k], !.info.size = ToStr(sizes[k])]
        ELSE infos[i]]

\* The log entries of line 240 or of line 243, one per unknown item.
ItemLog(infos, items, level, tag) ==
    [k \in DOMAIN items |-> LogEntry(level, tag, infos[items[k]].file.path)]

\* Lines 219-243.
Resolve ==
    /\ pc = "resolve"
    /\ LET infos   == ParsedInfos(SortedFiles(kiz_files))
           unknown == UnknownItems(infos)
       IN  IF unknown # <<>> /\ FallbackEligible(infos)
           THEN LET sorted == SortByName(infos, unknown)
                IN  /\ kiz_infos' = AssignSizes(infos, sorted, MissingSizes(infos))
                    /\ log_messages' = log_messages
                                       \o ItemLog(infos, sorted, "INFO", "auto_size")
           ELSE /\ kiz_infos' = infos
                /\ log_messages' = log_messages
                                   \o ItemLog(infos, unknown, "WARNING", "no_size")
    /\ pc' = "assemble"
    /\ UNCHANGED <<input_dir, create_combined, label_file, kiz_files, scan, fed,
                   disk, created_files, result, item_no>>

\* x or default, for strings.
OrDefault(x, default) == IF x = <<>> THEN default ELSE x

\* Lines 256-260.
OutputFile(info, size) ==
    OutputPath(<<"S", "b", "o", "r", "k", "a", "_">>
               \o RemoveSpaces(OrDefault(info.article,
                      <<"N", "O", "A", "R", "T", "I", "C", "L", "E">>))
               \o <<"_">>
               \o Strip(OrDefault(info.color, <<"N", "O", "C", "O", "L", "O", "R">>))
               \o <<"_">> \o ToStr(size) \o <<".", "p", "d", "f">>)

\* Lines 274-275.
CombinedFile(first) ==
    OutputPath(<<"S", "b", "o", "r", "k", "a", "_">>
               \o RemoveSpaces(first.article) \o <<"_">> \o first.color
               \o <<"_", "v", "s", "e", "_", "r", "a", "z", "m", "e", "r", "y",
                    ".", "p", "d", "f">>)

\* The condition of line 253.
HasLabel(item, size_pages) ==
    item.size # None /\ item.size # 0 /\ item.size \in DOMAIN size_pages

\* The call of lines 262-264 with the two label pages exchanged.
AssembleItemSwapped(item) ==
    AssemblePdfForSize(disk, TheLabel,
                       scan.size_pages[item.size][2], scan.size_pages[item.size][1],
                       item.file, OutputFile(item.info, item.size))

\* The call of lines 262-264 for an item that has label pages.
AssembleItem(item) ==
    AssemblePdfForSize(disk, TheLabel,
                       scan.size_pages[item.size][1], scan.size_pages[item.size][2],
                       item.file, OutputFile(item.info, item.size))

\* One iteration of the loop of lines 248-269.
Assemble ==
    /\ pc = "assemble"
    /\ item_no <= Len(kiz_infos)
    /\ LET item == kiz_infos[item_no]
       IN  IF HasLabel(item, scan.size_pages)
           THEN LET r == AssembleItem(item)
                IN  /\ disk' = r.disk
                    /\ created_files' =
                          IF r.pages > 0
                          THEN Append(created_files, OutputFile(item.info, item.size))
                          ELSE created_files
                    /\ log_messages' = log_messages \o r.log
           ELSE /\ log_messages' = Append(log_messages,
                                      LogEntry("WARNING", "no_label", item.file.path))
                /\ UNCHANGED <<disk, created_files>>
    /\ item_no' = item_no + 1
    /\ UNCHANGED <<input_dir, create_combined, pc, label_file, kiz_files, scan, fed,
                   kiz_infos, result>>

\* Lines 271-279.  Whether the combined file can be written is the file
\* system's choice.
Combine ==
    /\ pc = "assemble"
    /\ item_no > Len(kiz_infos)
    /\ IF create_combined /\ created_files # <<>>
       THEN \E writable \in BOOLEAN :
            LET combined_path == CombinedFile(kiz_infos[1].info)
                r == CreateCombinedPdf(disk, created_files, combined_path, writable)
            IN  /\ disk' = r.disk
                /\ log_messages' = log_messages \o r.log
                /\ created_files' = Append(created_files, combined_path)
       ELSE UNCHANGED <<disk, log_messages, created_files>>
    /\ result' = Returned(TRUE, created_files')
    /\ pc' = "done"
    /\ UNCHANGED <<input_dir, create_combined, label_file, kiz_files, scan, fed,
                   kiz_infos, item_no>>

Next == Discover \/ ScanLabel \/ Resolve \/ Assemble \/ Combine

(***************************************************************************)
(* Inputs                                                                  *)
(***************************************************************************)

\* Most code documents of a small input directory.
MaxSmallDocs == 3

\* Most code documents of a wide input directory (one more than size_order).
MaxDocs == 9

\* Most pages of a code document.
MaxPages == 2

Pdf == <<".", "p", "d", "f">>

\* A file name from its parts.
NameOf(parts) == Join(parts) \o Pdf

\* The text of a label page rendered from marker m (None: no marker).
MarkerText(m) ==
    IF m = None THEN <<"x">> ELSE Marker \o <<" ">> \o ToStr(m)

\* A label whose pages are rendered from the markers ms.
LabelOf(ms, ok) ==
    File(<<<<"L">> \o Pdf>>, 2, ok, [i \in DOMAIN ms |-> MarkerText(ms[i])], TRUE)

\* The markers of a label that covers the first k canonical sizes with two
\* consecutive pages each, after lead pages without a marker.
RECURSIVE CoverMarkers(_, _)
CoverMarkers(k, lead) ==
    IF lead > 0 THEN <<None>> \o CoverMarkers(k, lead - 1)
    ELSE IF k = 0 THEN <<>>
    ELSE CoverMarkers(k - 1, 0) \o <<size_order[k], size_order[k]>>

\* A code document of n pages.
CodeFile(path, ok, n, wr) == File(path, 1, ok, [i \in 1..n |-> <<"x">>], wr)

\* File-name parts of the small inputs: two names that give the same article,
\* color and size; other sizes; no size; a size only the pattern finds.
SmallParts ==
    { << <<"A">>, <<"1">>, <<"b">>, <<"4", "2">> >>,
      << <<"A">>, <<"1">>, <<"b">>, <<"4", "2">>, <<"c">> >>,
      << <<"A">>, <<"1">>, <<"c">>, <<"4", "4">> >>,
      << <<"A">>, <<"1">>, <<"b">> >>,
      << <<"A">>, <<"1">>, <<"b">>, <<"4", "6">> >>,
      << <<"A">>, <<"1">>, <<"d">>, <<"4", "4", "r", "a", "z", "m">> >> }

\* What reading a code document and writing its output can do: the file does
\* not open; it opens with n pages and the output is written; it opens and
\* the output cannot be written.
Outcomes ==
    {[ok |-> FALSE, n |-> 1, wr |-> TRUE], [ok |-> TRUE, n |-> 1, wr |-> FALSE]}
    \cup {[ok |-> TRUE, n |-> n, wr |-> TRUE] : n \in 0..MaxPages}

\* A file the discovery skips (line 194), larger than every other file.
Junk == File(<<MACOSX, <<"x">> \o Pdf>>, 3, TRUE, <<>>, TRUE)

\* The labels of the small inputs: no page, one page without a marker, the
\* first two sizes (after a page without a marker or not), every size; and
\* a label PdfReader cannot open.
SmallLabels ==
    {[ms |-> CoverMarkers(0, lead), ok |-> TRUE] : lead \in {0, 1}}
    \cup {[ms |-> CoverMarkers(2, lead), ok |-> ok] : lead \in {0, 1}, ok \in BOOLEAN}
    \cup {[ms |-> CoverMarkers(Len(size_order), 0), ok |-> TRUE]}

\* The sets of at most MaxSmallDocs file names.
SmallNameSets == {names \in SUBSET SmallParts : Cardinality(names) <= MaxSmallDocs}

\* An input directory without any *.pdf but, possibly, a skipped one.
InitEmpty ==
    /\ input_dir \in SUBSET {Junk}
    /\ fed = <<>>
    /\ create_combined = TRUE

\* A label of the first two sizes and up to MaxSmallDocs code documents of
\* any outcome.
InitOutcomes ==
    \E names \in SmallNameSets :
    \E out \in [names -> Outcomes] :
        /\ input_dir =
              {LabelOf(CoverMarkers(2, 0), TRUE)}
              \cup {CodeFile(<<NameOf(p)>>, out[p].ok, out[p].n, out[p].wr) : p \in names}
        /\ fed = CoverMarkers(2, 0)
        /\ create_combined \in BOOLEAN

\* Any small label and up to MaxSmallDocs one-page code documents, with or
\* without a skipped file.
InitLabels ==
    \E names \in SmallNameSets, l \in SmallLabels, junk \in SUBSET {Junk} :
        /\ input_dir =
              junk \cup {LabelOf(l.ms, l.ok)}
                   \cup {CodeFile(<<NameOf(p)>>, TRUE, 1, TRUE) : p \in names}
        /\ fed = l.ms
        /\ create_combined = TRUE

Letters == <<"a", "b", "c", "d", "e", "f", "g", "h", "i", "j", "k", "l">>

\* The canonical size of position p, cyclically.
OwnSize(p) == size_order[((p - 1) % Len(size_order)) + 1]

\* The p-th of n code documents of a wide input.  Its name carries the size
\* of its position when sized, else no size.  With rev the documents lie in
\* directories whose order is the reverse of the order of the names.
WideFile(p, n, size, rev) ==
    LET parts == << <<"A">>, <<"1">>, <<Letters[p]>> >>
                 \o (IF size = None THEN <<>> ELSE <<ToStr(size)>>)
    IN  CodeFile((IF rev THEN <<<<Letters[n + 1 - p]>>>> ELSE <<>>) \o <<NameOf(parts)>>,
                 TRUE, 1, TRUE)

\* Wide input directories: a label that covers every size and one code
\* document fewer than, as many as, or more than size_order.  Any set of
\* the documents carries a size: the size of its position or, for the last
\* document with again, the first size once more.
InitWide ==
    \E n \in (Len(size_order) - 1)..MaxDocs :
    \E sized \in SUBSET (1..n), mode \in {"plain", "again", "rev"} :
        /\ input_dir =
              {LabelOf(CoverMarkers(Len(size_order), 0), TRUE)}
              \cup {WideFile(p, n,
                             IF p \notin sized THEN None
                             ELSE IF mode = "again" /\ p = n THEN size_order[1]
                             ELSE OwnSize(p),
                             mode = "rev") : p \in 1..n}
        /\ fed = CoverMarkers(Len(size_order), 0)
        /\ create_combined = TRUE

\* The state at the call of process.
InitProcess ==
    /\ pc = "discover"
    /\ label_file = {}
    /\ kiz_files = {}
    /\ scan = ScanInit
    /\ kiz_infos = <<>>
    /\ item_no = 1
    /\ log_messages = <<>>
    /\ disk = EmptyMap
    /\ created_files = <<>>
    /\ result = NotReturned

Init == InitProcess /\ (InitEmpty \/ InitOutcomes \/ InitLabels \/ InitWide)

Spec == Init /\ [][Next]_vars

(***************************************************************************)
(* find_label_pages alone, page by page                                    *)
(***************************************************************************)

\* Most pages of a scanned label.
MaxLabelPages == 5

\* The sizes the markers of a scanned label carry.
ScanSizes == {0, 42, 44}

\* Page texts without a marker: extraction failed or found nothing (""),
\* the marker word without digits.
PlainTexts == {<<>>, Marker \o <<" ", "x">>}

\* Page texts that carry marker m: as MarkerText renders it and, for the
\* first size, inside other text and without the blank.
TextsOf(m) ==
    IF m = None THEN PlainTexts
    ELSE {MarkerText(m)}
         \cup (IF m = size_order[1]
               THEN {<<"x", " ">> \o Marker \o ToStr(m) \o <<" ", "1">>}
               ELSE {})

InitScan ==
    /\ pc = "scan_pages"
    /\ label_file = {LabelOf(<<>>, TRUE)}
    /\ input_dir = label_file
    /\ fed = <<>>
    /\ scan = ScanInit
    /\ create_combined = TRUE
    /\ kiz_files = {}
    /\ kiz_infos = <<>>
    /\ item_no = 1
    /\ log_messages = <<>>
    /\ disk = EmptyMap
    /\ created_files = <<>>
    /\ result = NotReturned

\* The loop body of find_label_pages on the next page of the label, whose
\* text carries marker m or none.
ScanPage ==
    /\ pc = "scan_pages"
    /\ Len(fed) < MaxLabelPages
    /\ \E m \in ScanSizes \cup {None} : \E text \in TextsOf(m) :
        /\ fed' = Append(fed, m)
        /\ label_file' = {[TheLabel EXCEPT !.texts = Append(@, text)]}
        /\ scan' = ScanStep(scan, Len(fed), text)
    /\ input_dir' = label_file'
    /\ UNCHANGED <<create_combined, pc, kiz_files, kiz_infos, item_no, log_messages,
                   disk, created_files, result>>

SpecScan == InitScan /\ [][ScanPage]_vars

(***************************************************************************)
(* extract_kiz_info alone                                                  *)
(***************************************************************************)

\* Most parts of a parsed file name.
MaxParts == 4

\* The parts the parsed names are made of: words, canonical sizes, a size
\* written with a leading zero, a size glued to the pattern's stem.
PartPool ==
    { <<"A">>, <<"b">>, <<"4", "2">>, <<"4", "4">>, <<"0", "4", "2">>,
      <<"5", "6", "r", "a", "z", "m">> }

RECURSIVE PartSeqs(_)
PartSeqs(n) ==
    IF n = 0 THEN {<<>>}
    ELSE LET shorter == PartSeqs(n - 1)
         IN  shorter \cup {Append(q, t) : q \in {r \in shorter : Len(r) = n - 1},
                                           t \in PartPool}

InitParse ==
    /\ pc = "parse"
    /\ \E parts \in PartSeqs(MaxParts) \ {<<>>} :
          kiz_files = {CodeFile(<<NameOf(parts)>>, TRUE, 1, TRUE)}
    /\ input_dir = kiz_files
    /\ label_file = {}
    /\ fed = <<>>
    /\ scan = ScanInit
    /\ create_combined = TRUE
    /\ kiz_infos = <<>>
    /\ item_no = 1
    /\ log_messages = <<>>
    /\ disk = EmptyMap
    /\ created_files = <<>>
    /\ result = NotReturned

\* extract_kiz_info on the file's name, as line 224 calls it.
Parse ==
    /\ pc = "parse"
    /\ kiz_infos' = ParsedInfos(SortedFiles(kiz_files))
    /\ pc' = "parsed"
    /\ UNCHANGED <<input_dir, create_combined, label_file, kiz_files, scan, fed,
                   item_no, log_messages, disk, created_files, result>>

SpecParse == InitParse /\ [][Parse]_vars

(***************************************************************************)
(* Claims                                                                  *)
(***************************************************************************)

\* The 1-based index of the last part that is all digits with a canonical
\* value, 0 when there is none.
LastSizePart(parts) ==
    LET hits == {i \in DOMAIN parts :
                    IsDigitStr(parts[i]) /\ ToInt(parts[i]) \in Range(size_order)}
    IN  IF hits = {} THEN 0 ELSE CHOOSE i \in hits : \A j \in hits : j <= i

\* C7: when a purely numeric part with a canonical value exists, the size is
\* the value of the last such part and, with i its 0-based index, the color
\* is parts[2:i] joined by blanks if i > 2 and parts[2:] otherwise - for
\* every name, also one in which the size occurs as more than one part.
C7_ColorFromSizeIndex ==
    pc = "parsed" =>
        LET parts == Split(Stem(FileName(kiz_infos[1].file)))
            i     == LastSizePart(parts) - 1
            info  == kiz_infos[1].info
        IN  i >= 0 =>
              /\ info.size = ToStr(ToInt(parts[i + 1]))
              /\ info.color = IF i > 2 THEN Join(SubSeq(parts, 3, i))
                              ELSE Join(SubSeq(parts, 3, Len(parts)))

\* The number of (marker, marker) pairs of a marker sequence made only of
\* pages without a marker and of two consecutive pages with the same marker;
\* None for any other sequence.
RECURSIVE PairCount(_)
PairCount(ms) ==
    IF ms = <<>> THEN 0
    ELSE IF ms[1] = None THEN PairCount(Tail(ms))
    ELSE IF Len(ms) >= 2 /\ ms[2] = ms[1]
         THEN LET rest == PairCount(SubSeq(ms, 3, Len(ms)))
              IN  IF rest = None THEN None ELSE rest + 1
         ELSE None

\* The markers of the scanned pages.
FedSizes == Range(fed) \ {None}

\* The entries of the result lie on pages that carry the marker of their
\* size, first before second; the scan variable is the whole function's
\* value; and a page without a marker leaves the scan state as it is.
ScanSound ==
    /\ scan.size_pages = FindLabelPages(TheLabel)
    /\ \A s \in DOMAIN scan.size_pages :
          LET pair == scan.size_pages[s]
          IN  /\ pair[1] < pair[2]
              /\ pair[2] < Len(fed)
              /\ fed[pair[1] + 1] = s
              /\ fed[pair[2] + 1] = s
    /\ \A text \in PlainTexts : ScanStep(scan, Len(fed), text) = scan

Done == pc = "done"

\* process has just left the fallback step: kiz_infos holds the final sizes.
Resolved == pc = "assemble" /\ item_no = 1

\* process returned (it did not raise).
Returns == Done /\ result.status = "returned"

\* C1: process returns (False, []) exactly when no input document was
\* discovered or the label scan gave no pair, returns (True, list) in every
\* other run, and never fails in any other way.
C1_TwoFatalConditions ==
    Done =>
        /\ result.status = "returned"
        /\ result.success = ~(AllPdfs = {} \/ FindLabelPages(TheLabel) = EmptyMap)
        /\ ~result.success => result.files = <<>>

\* Each code document with the size parsed from its name ("" when absent).
NameSizes == {<<f, extract_kiz_info(FileName(f)).size>> : f \in kiz_files}

\* The code documents without a parsed size.
UnresolvedOf(parsed) == {q[1] : q \in {r \in parsed : r[2] = <<>>}}

\* The canonical sizes not parsed from any code document.
GapOf(parsed) ==
    {s \in Range(size_order) : ToStr(s) \notin {q[2] : q \in parsed}}

\* The fallback branch of line 235 was taken: line 240 logged.
FallbackApplied == \E k \in DOMAIN log_messages : log_messages[k].tag = "auto_size"

\* The entry of kiz_infos of code document f.
ItemOf(f) == kiz_infos[CHOOSE k \in DOMAIN kiz_infos : kiz_infos[k].file = f]

\* Line 243 reported f.
Reported(f) ==
    \E k \in DOMAIN log_messages :
        log_messages[k] = LogEntry("WARNING", "no_size", f.path)

\* The condition the claims give for the fallback: unresolved-count =
\* gap-count = total - resolved-count, and the total is the catalog size.
ClaimEligible(parsed) ==
    LET unresolved == UnresolvedOf(parsed)
        gap        == GapOf(parsed)
        total      == Cardinality(kiz_files)
        resolved   == Cardinality(kiz_files \ unresolved)
    IN  /\ Cardinality(unresolved) = Cardinality(gap)
        /\ Cardinality(gap) = total - resolved
        /\ total = Len(size_order)

\* C2: with unresolved documents, the fallback assigns them sizes if and only
\* if unresolved-count = gap-count = total - resolved-count and the total is
\* the catalog size; otherwise (so with one document more or fewer) every
\* unresolved document is reported and left without a size.
C2_FallbackIff ==
    Resolved =>
        LET parsed     == NameSizes
            unresolved == UnresolvedOf(parsed)
            eligible   == ClaimEligible(parsed)
        IN  unresolved # {} =>
              /\ FallbackApplied <=> eligible
              /\ eligible => \A f \in unresolved :
                                /\ ItemOf(f).size \in Range(size_order)
                                /\ ItemOf(f).info.size = ToStr(ItemOf(f).size)
              /\ ~eligible => \A f \in unresolved :
                                /\ Reported(f)
                                /\ ItemOf(f).size = None
                                /\ ItemOf(f).info.size = <<>>

\* The fallback was applied to some but not all of the documents.
C2_Witness ==
    /\ Resolved
    /\ FallbackApplied
    /\ LET unresolved == UnresolvedOf(NameSizes)
       IN  unresolved # {} /\ unresolved # kiz_files

\* A run of 8 code documents, none with a parsable size, whose label covers
\* every canonical size, has returned.
EightUnparsed ==
    /\ Returns
    /\ Cardinality(kiz_files) = Len(size_order)
    /\ Range(size_order) \subseteq DOMAIN scan.size_pages
    /\ UnresolvedOf(NameSizes) = kiz_files

\* C3 as stated: the gap is measured against the label's map; in such a run
\* it is 0, the fallback is not applied, all 8 documents are reported, no
\* output is produced and process returns (True, []).
C3_GapFromLabel ==
    EightUnparsed =>
        /\ ~FallbackApplied
        /\ \A f \in kiz_files : Reported(f) /\ ItemOf(f).size = None
        /\ DOMAIN disk = {}
        /\ result = Returned(TRUE, <<>>)

\* The code documents that open with at least one page and whose output can
\* be written.
Usable == {f \in kiz_files : f.ok /\ Len(f.texts) >= 1 /\ f.wr}

\* C3 as amended: the gap is measured against the sizes parsed from the code
\* documents; in such a run it is 8, the fallback is applied, no document is
\* reported, the documents receive 42..56 in ascending file-name order, every
\* usable document gives one output and process returns True with the list.
C3_GapFromNames ==
    EightUnparsed =>
        /\ Cardinality(GapOf(NameSizes)) = Len(size_order)
        /\ FallbackApplied
        /\ \A f \in kiz_files : ~Reported(f)
        /\ {ItemOf(f).size : f \in kiz_files} = Range(size_order)
        /\ \A f, g \in kiz_files :
              StrLess(FileName(f), FileName(g)) => ItemOf(f).size < ItemOf(g).size
        /\ \A f \in Usable : OutputFile(ItemOf(f).info, ItemOf(f).size) \in DOMAIN disk
        /\ Len(created_files) >= Cardinality(Usable)
        /\ result = Returned(TRUE, created_files)

\* Such a run returned 8 outputs and the combined document.
C3_Witness ==
    /\ EightUnparsed
    /\ Len(result.files) = Len(size_order) + 1

\* The assembly loop is at an item that has label pages and whose code
\* document opens with at least one page.
AtOpenable ==
    /\ pc = "assemble"
    /\ item_no <= Len(kiz_infos)
    /\ HasLabel(kiz_infos[item_no], scan.size_pages)
    /\ kiz_infos[item_no].file.ok
    /\ Len(kiz_infos[item_no].file.texts) >= 1

\* written is, for every page of code document f in order, the two label
\* pages of pair and the code page twice.
FourPerPage(written, pair, f) ==
    /\ Len(written) = 4 * Len(f.texts)
    /\ \A j \in 1..Len(f.texts) :
          /\ written[4 * j - 3] = Page(TheLabel.path, pair[1])
          /\ written[4 * j - 2] = Page(TheLabel.path, pair[2])
          /\ written[4 * j - 1] = Page(f.path, j - 1)
          /\ written[4 * j] = Page(f.path, j - 1)

\* What C4 says of the call for the item the loop is at: the output holds
\* 4*n pages in the stated order, 4*n is returned (and so the output is
\* listed), and the label and the code documents are as before.
AssembledInFours ==
    LET item == kiz_infos[item_no]
        out  == OutputFile(item.info, item.size)
    IN  /\ out \in DOMAIN disk'
        /\ FourPerPage(disk'[out], scan.size_pages[item.size], item.file)
        /\ AssembleItem(item).pages = 4 * Len(item.file.texts)
        /\ created_files' = Append(created_files, out)
        /\ UNCHANGED <<input_dir, label_file, kiz_files>>

CombinedPath == CombinedFile(kiz_infos[1].info)

\* process returned and create_combined_pdf wrote the combined document.
CombinedBuilt ==
    /\ Returns
    /\ result.success
    /\ create_combined
    /\ created_files # <<>>
    /\ CombinedPath \in DOMAIN disk

\* The per-size output documents of the run.
PerSizeOutputs == DOMAIN disk \ {CombinedPath}

\* The per-size output documents of size s.
OutputsOfSize(s) ==
    {q \in PerSizeOutputs :
        \E k \in DOMAIN kiz_infos :
            /\ kiz_infos[k].size = s
            /\ q = OutputFile(kiz_infos[k].info, s)}

\* Every sequence that lists each member of S once.
RECURSIVE Orderings(_)
Orderings(S) ==
    IF S = {} THEN {<<>>}
    ELSE UNION {{<<x>> \o o : o \in Orderings(S \ {x})} : x \in S}

\* The pages of the listed documents, one document after the other.
RECURSIVE PagesOfAll(_)
PagesOfAll(paths) ==
    IF paths = <<>> THEN <<>> ELSE disk[paths[1]] \o PagesOfAll(Tail(paths))

\* The page sequences that hold every per-size output once, by ascending
\* size from the k-th size on (outputs of one size in any order).
RECURSIVE BySizeFrom(_)
BySizeFrom(k) ==
    IF k > Len(size_order) THEN {<<>>}
    ELSE {PagesOfAll(o) \o rest :
            o \in Orderings(OutputsOfSize(size_order[k])), rest \in BySizeFrom(k + 1)}

\* C5: a combined document that was built holds the pages of every per-size
\* output document of the run, each once, by ascending canonical size.
C5_CombinedBySize == CombinedBuilt => disk[CombinedPath] \in BySizeFrom(1)

\* The pages of code document f occur in some output document.
Appears(f) ==
    \E q \in DOMAIN disk : \E j \in DOMAIN disk[q] : disk[q][j].file = f.path

\* C8: an output document exists only for a code document whose final size
\* is canonical and a key of the label's map, and its label pages are the
\* pair of that size; a document whose size is absent with the fallback not
\* eligible, or whose size has no pair, yields no output and gets no size.
C8_OnlyWithLabelPair ==
    (pc = "assemble" \/ (Returns /\ result.success)) =>
        LET parsed   == NameSizes
            eligible == ClaimEligible(parsed)
        IN  /\ \A q \in DOMAIN disk :
                  (Len(kiz_infos) = 0 \/ q # CombinedPath) =>
                      \E k \in DOMAIN kiz_infos :
                          LET item == kiz_infos[k]
                          IN  /\ item.size \in Range(size_order)
                              /\ item.size \in DOMAIN scan.size_pages
                              /\ q = OutputFile(item.info, item.size)
                              /\ FourPerPage(disk[q], scan.size_pages[item.size],
                                             item.file)
            /\ \A p \in parsed :
                  LET item == ItemOf(p[1])
                  IN  /\ (p[2] = <<>> /\ ~eligible) =>
                            item.size = None /\ item.info.size = <<>>
                      /\ p[2] # <<>> => item.info.size = p[2]
                      /\ (item.size = None \/ item.size \notin DOMAIN scan.size_pages)
                            => ~Appears(p[1])

\* process returned outputs while one code document had no size and another
\* a size without a label pair.
C8_Witness ==
    /\ Returns
    /\ result.files # <<>>
    /\ \E k \in DOMAIN kiz_infos : kiz_infos[k].size = None
    /\ \E k \in DOMAIN kiz_infos :
          kiz_infos[k].size # None /\ kiz_infos[k].size \notin DOMAIN scan.size_pages

\* C9: when the fallback is applied, the final sizes are a bijection between
\* the code documents and the 8 canonical sizes; parsed sizes are kept, and
\* the unresolved documents in ascending file-name order receive the sizes
\* parsed from no document in ascending order.
C9_FallbackBijection ==
    (Resolved /\ FallbackApplied) =>
        LET parsed     == NameSizes
            unresolved == UnresolvedOf(parsed)
        IN  /\ Len(kiz_infos) = Len(size_order)
            /\ Cardinality(kiz_files) = Len(size_order)
            /\ {kiz_infos[k].size : k \in DOMAIN kiz_infos} = Range(size_order)
            /\ \A p \in parsed : p[2] # <<>> => ToStr(ItemOf(p[1]).size) = p[2]
            /\ {ItemOf(f).size : f \in unresolved} = GapOf(parsed)
            /\ \A f, g \in unresolved :
                  StrLess(FileName(f), FileName(g)) => ItemOf(f).size < ItemOf(g).size

\* The fallback was applied to documents whose path order is not the order
\* of their names, beside a document that parsed its size.
C9_Witness ==
    /\ Resolved
    /\ FallbackApplied
    /\ \E a, b \in DOMAIN kiz_infos :
          /\ a < b
          /\ StrLess(FileName(kiz_infos[b].file), FileName(kiz_infos[a].file))
    /\ UnresolvedOf(NameSizes) # kiz_files

\* C10: every path process returns names a document written in that run -
\* a per-size output as well as the combined document.
C10_ListedWereWritten ==
    Returns => \A k \in DOMAIN result.files : result.files[k] \in DOMAIN disk

=============================================================================
